---- MODULE Spec2Model ----
(***************************************************************************)
(* The upload and promote commands of oclif and the S3 key helpers they    *)
(* share.  A run is modelled as the synchronous part of Command.run (the   *)
(* precondition checks and the construction of the Promise.all array,      *)
(* which issues every storage task), followed by the storage tasks         *)
(* settling one at a time in any order, and by the continuation of         *)
(* `await Promise.all`.  Keys are strings, built character by character    *)
(* the way the templates, String.replace and path.posix.join build them.   *)
(***************************************************************************)
EXTENDS Naturals, Sequences, FiniteSets, TLC

VARIABLES
    cfg,        \* flags, build configuration and local files: fixed for the run
    pc,         \* the position of Command.run: start, await, resolved, rejected
    chk,        \* upload: the index of the next target of the existence loop
    tasks,      \* the storage tasks issued so far, in issue order
    runError,   \* the message run() was rejected with, "" while there is none
    rejectedBy, \* the index of the task whose rejection rejected run(), 0 if none
    writes,     \* the object keys mutated in storage so far
    ret,        \* the last call of an upload-util function on its own, and its result
    prev        \* the tasks of the run before this one, as it left them, if there was one

vars == <<cfg, pc, chk, tasks, runError, rejectedBy, writes, ret, prev>>

(***************************************************************************)
(* Bounds of the model.                                                    *)
(***************************************************************************)
MaxTargets == 2
MaxTasks == 4
MaxDebMeta == 1
MaxRerunTasks == 3

(***************************************************************************)
(* Strings.                                                                *)
(***************************************************************************)
RECURSIVE IndexOfFrom(_, _, _)
\* String.prototype.indexOf: the first position >= i at which pat occurs in s, 0 if none.
IndexOfFrom(s, pat, i) ==
    IF i + Len(pat) - 1 > Len(s) THEN 0
    ELSE IF SubSeq(s, i, i + Len(pat) - 1) = pat THEN i
    ELSE IndexOfFrom(s, pat, i + 1)

IndexOf(s, pat) == IndexOfFrom(s, pat, 1)

\* String.prototype.includes
includes(s, pat) == IndexOf(s, pat) > 0

\* String.prototype.replace(pat, rep) with a string pattern: the first occurrence only.
replace(s, pat, rep) ==
    LET i == IndexOf(s, pat)
    IN  IF i = 0 THEN s
        ELSE SubSeq(s, 1, i - 1) \o rep \o SubSeq(s, i + Len(pat), Len(s))

\* s.slice(-1)
lastChar(s) == IF s = "" THEN "" ELSE SubSeq(s, Len(s), Len(s))

RECURSIVE split(_, _)
\* String.prototype.split(sep) for a one-character separator.
split(s, sep) ==
    LET i == IndexOf(s, sep)
    IN  IF i = 0 THEN <<s>>
        ELSE <<SubSeq(s, 1, i - 1)>> \o split(SubSeq(s, i + 1, Len(s)), sep)

RECURSIVE joinWith(_, _)
\* Array.prototype.join(sep)
joinWith(parts, sep) ==
    IF parts = <<>> THEN ""
    ELSE IF Len(parts) = 1 THEN parts[1]
    ELSE parts[1] \o sep \o joinWith(Tail(parts), sep)

RECURSIVE normalizeSegments(_, _)
\* The segment walk of path.posix.normalize on a relative path: empty and "."
\* segments are dropped, ".." removes the segment before it when there is one.
normalizeSegments(segs, acc) ==
    IF segs = <<>> THEN acc
    ELSE LET h == Head(segs)
         IN  IF h = "" \/ h = "." THEN normalizeSegments(Tail(segs), acc)
             ELSE IF h = ".." /\ acc # <<>> /\ acc[Len(acc)] # ".."
                  THEN normalizeSegments(Tail(segs), SubSeq(acc, 1, Len(acc) - 1))
             ELSE normalizeSegments(Tail(segs), Append(acc, h))

\* path.posix.normalize
normalize(p) ==
    IF p = "" THEN "."
    ELSE LET abs   == SubSeq(p, 1, 1) = "/"
             trail == lastChar(p) = "/"
             body  == joinWith(normalizeSegments(split(p, "/"), <<>>), "/")
             b2    == IF body = "" /\ ~abs THEN "." ELSE body
             b3    == IF b2 # "" /\ trail THEN b2 \o "/" ELSE b2
         IN  IF abs THEN "/" \o b3 ELSE b3

\* path.posix.join: the non-empty arguments joined with "/", then normalized.
posixJoin(parts) ==
    normalize(joinWith(SelectSeq(parts, LAMBDA x : x # ""), "/"))

\* path.basename
basename(p) ==
    LET segs == SelectSeq(split(p, "/"), LAMBDA x : x # "")
    IN  IF segs = <<>> THEN "" ELSE segs[Len(segs)]

RECURSIVE uniq(_)
\* util.uniq: the first occurrence of every element, in order.
uniq(s) ==
    IF s = <<>> THEN <<>>
    ELSE LET r == uniq(SubSeq(s, 1, Len(s) - 1))
             x == s[Len(s)]
         IN  IF \E i \in 1..Len(r) : r[i] = x THEN r ELSE Append(r, x)

RECURSIVE flatten(_)
\* Array.prototype.flat / the concatenation flatMap does.
flatten(ss) == IF ss = <<>> THEN <<>> ELSE Head(ss) \o flatten(Tail(ss))

Range(s) == { s[i] : i \in 1..Len(s) }

(***************************************************************************)
(* upload-util: directories, templates, the key builder.                   *)
(***************************************************************************)
\* commitAWSDir(version, sha, s3Config)
\* (mutant) the folder and the segments are concatenated with "/" as they are
commitAWSDirConcat(version, sha, folder) ==
    folder \o "/" \o "versions" \o "/" \o version \o "/" \o sha

commitAWSDir(version, sha, folder) ==
    LET s3SubDir == IF folder # "" /\ lastChar(folder) # "/" THEN folder \o "/" ELSE folder
    IN  posixJoin(<<s3SubDir, "versions", version, sha>>)

\* channelAWSDir(channel, s3Config)
channelAWSDir(channel, folder) ==
    LET s3SubDir == IF folder # "" /\ lastChar(folder) # "/" THEN folder \o "/" ELSE folder
    IN  posixJoin(<<s3SubDir, "channels", channel>>)

\* The options object of templateShortKey with every field the templates read.
NoOpts == [bin |-> "", version |-> "", sha |-> "", platform |-> "", arch |-> "",
           ext |-> "", versionShaRevision |-> ""]

\* templateShortKey(type, options): the ejs templates are plain interpolations.
\* (mutant) the versioned tarball template separates bin and version with "-" only
templateShortKeyNoV(type, o) ==
    CASE type = "baseDir"     -> o.bin
      [] type = "deb"         -> o.bin \o "_" \o o.versionShaRevision \o "_" \o o.arch \o ".deb"
      [] type = "macos"       -> o.bin \o "-v" \o o.version \o "-" \o o.sha \o "-" \o o.arch \o ".pkg"
      [] type = "manifest"    -> o.bin \o "-v" \o o.version \o "-" \o o.sha \o "-" \o o.platform
                                  \o "-" \o o.arch \o "-buildmanifest"
      [] type = "unversioned" -> o.bin \o "-" \o o.platform \o "-" \o o.arch \o o.ext
      [] type = "versioned"   -> o.bin \o "-" \o o.version \o "-" \o o.sha \o "-" \o o.platform
                                  \o "-" \o o.arch \o o.ext
      [] type = "win32"       -> o.bin \o "-v" \o o.version \o "-" \o o.sha \o "-" \o o.arch \o ".exe"

templateShortKey(type, o) ==
    CASE type = "baseDir"     -> o.bin
      [] type = "deb"         -> o.bin \o "_" \o o.versionShaRevision \o "_" \o o.arch \o ".deb"
      [] type = "macos"       -> o.bin \o "-v" \o o.version \o "-" \o o.sha \o "-" \o o.arch \o ".pkg"
      [] type = "manifest"    -> o.bin \o "-v" \o o.version \o "-" \o o.sha \o "-" \o o.platform
                                  \o "-" \o o.arch \o "-buildmanifest"
      [] type = "unversioned" -> o.bin \o "-" \o o.platform \o "-" \o o.arch \o o.ext
      [] type = "versioned"   -> o.bin \o "-v" \o o.version \o "-" \o o.sha \o "-" \o o.platform
                                  \o "-" \o o.arch \o o.ext
      [] type = "win32"       -> o.bin \o "-v" \o o.version \o "-" \o o.sha \o "-" \o o.arch \o ".exe"

\* config.s3Key, the hook that renders the project's own templates: the stand-in
\* the repository's tests use, which encodes the arguments of the call.
s3KeyHook(type, ext, target, channel) ==
    joinWith(<<"custom", type, target.platform \o "-" \o target.arch \o ext>>
             \o (IF channel # "" THEN <<channel>> ELSE <<>>), "/")

\* The key builder s3Keys(config, s3Config, options) returns; k is the record
\* [hasCustom, folder, bin, version, sha] it closes over.
optsOf(k, target, ext) ==
    [NoOpts EXCEPT !.bin = k.bin, !.version = k.version, !.sha = k.sha,
                   !.platform = target.platform, !.arch = target.arch, !.ext = ext]

channelManifest(k, target, channel) ==
    IF k.hasCustom THEN s3KeyHook("manifest", "", target, channel)
    ELSE LET manifest == templateShortKey("manifest", optsOf(k, target, ""))
             unversionedManifest == replace(manifest, "-v" \o k.version \o "-" \o k.sha, "")
         IN  channelAWSDir(channel, k.folder) \o "/" \o unversionedManifest

\* (mutant) the channel tarball keeps the versioned name
channelTarballVersioned(k, ext, target, channel) ==
    IF k.hasCustom THEN s3KeyHook("versioned", ext, target, channel)
    ELSE channelAWSDir(channel, k.folder) \o "/"
            \o templateShortKey("versioned", optsOf(k, target, ext))

channelTarball(k, ext, target, channel) ==
    IF k.hasCustom THEN s3KeyHook("unversioned", ext, target, channel)
    ELSE channelAWSDir(channel, k.folder) \o "/"
            \o templateShortKey("unversioned", optsOf(k, target, ext))

\* (mutant) the commit directory is prefixed whatever the templates
cloudKeyPrefixed(k, localKey) ==
    commitAWSDir(k.version, k.sha, k.folder) \o "/" \o localKey

cloudKey(k, localKey) ==
    IF k.hasCustom THEN localKey
    ELSE commitAWSDir(k.version, k.sha, k.folder) \o "/" \o localKey

indexFilename(k, ext, target, channel) ==
    IF k.hasCustom THEN s3KeyHook("unversioned", ext, target, channel)
    ELSE templateShortKey("unversioned", optsOf(k, target, ext))

manifest(k, target) ==
    IF k.hasCustom THEN s3KeyHook("manifest", "", target, "")
    ELSE templateShortKey("manifest", optsOf(k, target, ""))

versioned(k, ext, target) ==
    IF k.hasCustom THEN s3KeyHook("versioned", ext, target, "")
    ELSE templateShortKey("versioned", optsOf(k, target, ext))

\* (mutant) arm is mapped to the Debian name of arm64
DebArchTableArmClash == [x64 |-> "amd64", x86 |-> "i386", arm |-> "arm64", arm64 |-> "arm64"]

DebArchTable == [x64 |-> "amd64", x86 |-> "i386", arm |-> "armel", arm64 |-> "arm64"]

\* debArch throws for an architecture outside the table.
debArchThrows(arch) == arch \notin DOMAIN DebArchTable

debArch(arch) == DebArchTable[arch]

\* debVersion(buildConfig): the project's version up to its first "-", and the checkout's sha.
debVersion(pjsonVersion, gitSha) == split(pjsonVersion, "-")[1] \o "." \o gitSha \o "-1"

(***************************************************************************)
(* The storage tasks a run issues.  A task is one call of aws.s3.copyObject,*)
(* aws.s3.uploadFile or appendToIndex, with the arguments of the call.     *)
(***************************************************************************)
\* (mutant) the ignore-missing flag is not handed to copyObject
TaskNoIgnoreMissing(op, kind, src, dest, namespace, c) ==
    [op |-> op, kind |-> kind, src |-> src, dest |-> dest, namespace |-> namespace,
     bucket |-> c.bucket, dryRun |-> c.dryRun, ignoreMissing |-> FALSE,
     st |-> "pending", why |-> ""]

Task(op, kind, src, dest, namespace, c) ==
    [op |-> op, kind |-> kind, src |-> src, dest |-> dest, namespace |-> namespace,
     bucket |-> c.bucket, dryRun |-> c.dryRun,
     ignoreMissing |-> (op = "copy" /\ c.ignoreMissing),
     st |-> "pending", why |-> ""]

\* keys = s3Keys(config, s3Config, {bin, sha: flags.sha, version: flags.version})
promoteKeys(c) ==
    [hasCustom |-> c.hasCustom, folder |-> c.folder, bin |-> c.bin,
     version |-> c.flagVersion, sha |-> c.flagSha]

\* keys = s3Keys(config, s3Config, {bin, sha: buildConfig.gitSha, version: config.version})
uploadKeys(c) ==
    [hasCustom |-> c.hasCustom, folder |-> c.folder, bin |-> c.bin,
     version |-> c.pjsonVersion, sha |-> c.gitSha]

cloudBucketCommitKey(c, shortKey) ==
    posixJoin(<<c.bucket, commitAWSDir(c.flagVersion, c.flagSha, c.folder), shortKey>>)

cloudChannelKey(c, shortKey) == posixJoin(<<channelAWSDir(c.channel, c.folder), shortKey>>)

\* (mutant) appendToIndex is called without the dry-run flag
indexTasksNoDryRun(c, kind, filename, originalUrl) ==
    IF c.indexes
    THEN <<Task("append", kind, originalUrl, filename, "", [c EXCEPT !.dryRun = FALSE])>>
    ELSE <<>>

\* appendToIndex(...), issued beside a copy only with --indexes
indexTasks(c, kind, filename, originalUrl) ==
    IF c.indexes THEN <<Task("append", kind, originalUrl, filename, "", c)>> ELSE <<>>

\* (mutant) the channel key of the manifest is stamped with the run
promoteManifestStamped(c, target) ==
    LET keys      == promoteKeys(c)
        sourceKey == cloudKey(keys, manifest(keys, target))
        destKey   == channelManifest(keys, target, c.channel)
                        \o (IF prev.ran THEN ".1" ELSE "")
    IN  <<Task("copy", "manifest", posixJoin(<<c.bucket, sourceKey>>), destKey,
               basename(destKey), c)>>

promoteManifest(c, target) ==
    LET keys      == promoteKeys(c)
        sourceKey == cloudKey(keys, manifest(keys, target))
        destKey   == channelManifest(keys, target, c.channel)
    IN  <<Task("copy", "manifest", posixJoin(<<c.bucket, sourceKey>>), destKey,
               basename(destKey), c)>>

\* (mutant) the tarball is copied and no index entry is appended
promoteTarballsNoIndex(c, ext, kind, target) ==
    LET keys       == promoteKeys(c)
        sourceKey  == cloudKey(keys, versioned(keys, ext, target))
        destKey    == channelTarball(keys, ext, target, c.channel)
        copySource == posixJoin(<<c.bucket, sourceKey>>)
        filename   == indexFilename(keys, ext, target, c.channel)
    IN  <<Task("copy", kind, copySource, destKey, filename, c)>>

promoteTarballs(c, ext, kind, target) ==
    LET keys       == promoteKeys(c)
        sourceKey  == cloudKey(keys, versioned(keys, ext, target))
        destKey    == channelTarball(keys, ext, target, c.channel)
        copySource == posixJoin(<<c.bucket, sourceKey>>)
        filename   == indexFilename(keys, ext, target, c.channel)
    IN  <<Task("copy", kind, copySource, destKey, filename, c)>>
        \o indexTasks(c, kind \o "-index", filename, copySource)

promoteGzTarballs(c, target) == promoteTarballs(c, ".tar.gz", "gz", target)

promoteXzTarballs(c, target) == promoteTarballs(c, ".tar.xz", "xz", target)

archesOf(c, platform) ==
    LET ts == SelectSeq(c.targets, LAMBDA t : t.platform = platform)
    IN  [i \in 1..Len(ts) |-> ts[i].arch]

installerTasks(c, type, kind, arch) ==
    LET pkg == templateShortKey(type, [NoOpts EXCEPT !.arch = arch, !.bin = c.bin,
                                           !.sha = c.flagSha, !.version = c.flagVersion])
        copySource  == cloudBucketCommitKey(c, pkg)
        unversioned == replace(pkg, "-v" \o c.flagVersion \o "-" \o c.flagSha, "")
    IN  <<Task("copy", kind, copySource, cloudChannelKey(c, unversioned), unversioned, c)>>
        \o indexTasks(c, kind \o "-index", unversioned, copySource)

promoteMacInstallers(c) ==
    LET arches == uniq(archesOf(c, "darwin"))
    IN  flatten([i \in 1..Len(arches) |-> installerTasks(c, "macos", "pkg", arches[i])])

promoteWindowsInstallers(c) ==
    LET arches == archesOf(c, "win32")
    IN  flatten([i \in 1..Len(arches) |-> installerTasks(c, "win32", "exe", arches[i])])

\* The six repository files promoteDebianAptPackages copies beside the packages.
DebMetadata == <<"Packages.gz", "Packages.xz", "Packages.bz2", "Release", "InRelease", "Release.gpg">>

\* (mutant) the x86 targets are not filtered out
debArchesAll(c) ==
    LET linux == SelectSeq(c.targets, LAMBDA t : t.platform = "linux")
    IN  [i \in 1..Len(linux) |-> linux[i].arch]

\* The linux targets whose package is promoted: those whose arch does not include "x86".
debArches(c) ==
    LET linux == SelectSeq(c.targets, LAMBDA t : t.platform = "linux")
        kept  == SelectSeq(linux, LAMBDA a : ~includes(a.arch, "x86"))
    IN  [i \in 1..Len(kept) |-> kept[i].arch]

\* debArch throws while the artifact list is built, before any copy is issued.
debThrows(c) == \E i \in 1..Len(debArches(c)) : debArchThrows(debArches(c)[i])

debArtifacts(c, metadata) ==
    LET arches == debArches(c)
    IN  [i \in 1..Len(arches) |->
            templateShortKey("deb", [NoOpts EXCEPT !.arch = debArch(arches[i]), !.bin = c.bin,
                 !.versionShaRevision = debVersion(c.pjsonVersion, c.gitSha)])]
        \o metadata

\* (mutant) only the canonical key is written
debCopiesCanonicalOnly(c, artifact) ==
    LET debCopySource == cloudBucketCommitKey(c, "apt/" \o artifact)
        debKey        == cloudChannelKey(c, "apt/" \o artifact)
    IN  <<Task("copy", "deb", debCopySource, debKey, debKey, c)>>

debCopies(c, artifact) ==
    LET debCopySource == cloudBucketCommitKey(c, "apt/" \o artifact)
        debKey        == cloudChannelKey(c, "apt/" \o artifact)
        workaroundKey == cloudChannelKey(c, "apt/") \o "./" \o artifact
    IN  <<Task("copy", "deb", debCopySource, debKey, debKey, c),
          Task("copy", "deb-compat", debCopySource, workaroundKey, workaroundKey, c)>>

promoteDebianAptPackages(c, metadata) ==
    IF debThrows(c) THEN <<>>
    ELSE LET arts == debArtifacts(c, metadata)
         IN  flatten([i \in 1..Len(arts) |-> debCopies(c, arts[i])])

\* (mutant) the .tar.xz tarballs are promoted whatever the flag
promoteTasksXzAlways(c, metadata) ==
    flatten([i \in 1..Len(c.targets) |->
                promoteManifest(c, c.targets[i]) \o promoteGzTarballs(c, c.targets[i])])
    \o flatten([i \in 1..Len(c.targets) |-> promoteXzTarballs(c, c.targets[i])])
    \o (IF c.macos THEN promoteMacInstallers(c) ELSE <<>>)
    \o (IF c.win THEN promoteWindowsInstallers(c) ELSE <<>>)
    \o (IF c.deb THEN promoteDebianAptPackages(c, metadata) ELSE <<>>)

\* The array handed to Promise.all by Promote.run, in the order it is built.
promoteTasks(c, metadata) ==
    flatten([i \in 1..Len(c.targets) |->
                promoteManifest(c, c.targets[i]) \o promoteGzTarballs(c, c.targets[i])])
    \o (IF c.xz THEN flatten([i \in 1..Len(c.targets) |-> promoteXzTarballs(c, c.targets[i])])
        ELSE <<>>)
    \o (IF c.macos THEN promoteMacInstallers(c) ELSE <<>>)
    \o (IF c.win THEN promoteWindowsInstallers(c) ELSE <<>>)
    \o (IF c.deb THEN promoteDebianAptPackages(c, metadata) ELSE <<>>)

\* buildConfig.dist: the local path of a file of the distribution directory.
dist(key) == "dist/" \o key

releaseTarballs(c, ext, kind, target) ==
    LET keys     == uploadKeys(c)
        localKey == versioned(keys, ext, target)
    IN  <<Task("upload", kind, dist(localKey), cloudKey(keys, localKey), "", c)>>

\* (mutant) the manifest upload is issued without looking for the local file
maybeUploadManifestAlways(c, target) ==
    LET keys  == uploadKeys(c)
        m     == manifest(keys, target)
        local == dist(m)
    IN  <<Task("upload", "manifest", local, cloudKey(keys, m), "", c)>>

maybeUploadManifest(c, target) ==
    LET keys  == uploadKeys(c)
        m     == manifest(keys, target)
        local == dist(m)
    IN  IF local \in c.fs
        THEN <<Task("upload", "manifest", local, cloudKey(keys, m), "", c)>>
        ELSE <<>>

uploadTarball(c, target) ==
    releaseTarballs(c, ".tar.gz", "gz", target)
    \o maybeUploadManifest(c, target)
    \o (IF c.xz THEN releaseTarballs(c, ".tar.xz", "xz", target) ELSE <<>>)

uploadTasks(c) == flatten([i \in 1..Len(c.targets) |-> uploadTarball(c, c.targets[i])])

\* The local versioned .tar.gz the existence loop of UploadTarballs.run looks for.
\* (mutant) with xz the check looks for the .tar.xz
localTarballOfFormat(c, target) ==
    dist(versioned(uploadKeys(c), IF c.xz THEN ".tar.xz" ELSE ".tar.gz", target))

localTarball(c, target) == dist(versioned(uploadKeys(c), ".tar.gz", target))

(***************************************************************************)
(* The inputs of a run.                                                    *)
(***************************************************************************)
Target(p, a) == [platform |-> p, arch |-> a]

\* The targets promote runs are explored with; ppc64 is an architecture debArch
\* does not know.
PromoteTargets == {Target("darwin", "x64"), Target("linux", "ppc64"), Target("win32", "x64")}

\* The targets upload runs are explored with.
UploadTargets == {Target("darwin", "x64"), Target("linux", "x64")}

SeqsUpTo(S, n) == UNION { [1..m -> S] : m \in 0..n }

BaseCfg ==
    [cmd |-> "promote", targets |-> <<>>, dryRun |-> FALSE, ignoreMissing |-> FALSE,
     indexes |-> FALSE, macos |-> FALSE, win |-> FALSE, deb |-> FALSE, xz |-> FALSE,
     channel |-> "stable", bucket |-> "bkt", folder |-> "", hasCustom |-> FALSE,
     bin |-> "mycli", flagVersion |-> "1.2.3", flagSha |-> "abc1234",
     pjsonVersion |-> "1.2.3", gitSha |-> "abc1234", fs |-> {}]

\* How many of the repository metadata files a run with settling tasks copies.
RunDebMetadata == SubSeq(DebMetadata, 1, IF MaxDebMeta < 6 THEN MaxDebMeta ELSE 6)

PromoteCfgs ==
    { [BaseCfg EXCEPT !.targets = ts, !.dryRun = f[1], !.ignoreMissing = f[2],
                      !.indexes = f[3], !.macos = f[4], !.win = f[5], !.deb = f[6],
                      !.xz = f[7], !.bucket = b] :
        ts \in SeqsUpTo(PromoteTargets, MaxTargets), f \in [1..7 -> BOOLEAN], b \in {"", "bkt"} }

\* The local files a target's upload reads.
localFiles(c, target) ==
    {dist(versioned(uploadKeys(c), ".tar.gz", target)),
     dist(versioned(uploadKeys(c), ".tar.xz", target)),
     dist(manifest(uploadKeys(c), target))}

UploadCfgs ==
    UNION { { [BaseCfg EXCEPT !.cmd = "upload", !.targets = ts, !.dryRun = d, !.xz = x,
                              !.bucket = b, !.fs = files] :
                files \in SUBSET UNION { localFiles(BaseCfg, ts[i]) : i \in 1..Len(ts) } } :
            ts \in SeqsUpTo(UploadTargets, MaxTargets), d \in BOOLEAN, x \in BOOLEAN,
            b \in {"", "bkt"} }

\* prev in the first run of the command.
NoRun == [ran |-> FALSE, tasks |-> <<>>]

\* ret while no upload-util function has been called on its own.
NoCall == [fn |-> "", type |-> "", ext |-> "", arg |-> "", value |-> "", threw |-> FALSE]

count(s, P(_)) == Len(SelectSeq(s, P))

\* The number of storage tasks the run of c issues when its local checks pass.
fanOut(c, metadata) ==
    LET n   == Len(c.targets)
        idx == IF c.indexes THEN 2 ELSE 1
        lin == SelectSeq(c.targets, LAMBDA t : t.platform = "linux" /\ ~includes(t.arch, "x86"))
    IN  IF c.cmd = "upload"
        THEN n + (IF c.xz THEN n ELSE 0)
               + count(c.targets, LAMBDA t : dist(manifest(uploadKeys(c), t)) \in c.fs)
        ELSE n + n * idx
             + (IF c.xz THEN n * idx ELSE 0)
             + (IF c.macos
                THEN idx * Cardinality({t.arch : t \in {u \in Range(c.targets) : u.platform = "darwin"}})
                ELSE 0)
             + (IF c.win THEN idx * count(c.targets, LAMBDA t : t.platform = "win32") ELSE 0)
             + (IF c.deb /\ \A i \in 1..Len(lin) : ~debArchThrows(lin[i].arch)
                THEN 2 * (Len(lin) + Len(metadata)) ELSE 0)

\* The runs explored: those that issue at most MaxTasks storage tasks.
Init ==
    /\ cfg \in { c \in PromoteCfgs \cup UploadCfgs : fanOut(c, RunDebMetadata) <= MaxTasks }
    /\ pc = "start"
    /\ chk = 1
    /\ tasks = <<>>
    /\ runError = ""
    /\ rejectedBy = 0
    /\ writes = {}
    /\ ret = NoCall
    /\ prev = NoRun

(***************************************************************************)
(* Command.run: the synchronous part.                                      *)
(***************************************************************************)
\* (mutant) a rejected run issues its copies again
PromoteRunAgain(metadata) ==
    /\ cfg.cmd = "promote"
    /\ pc \in {"start", "rejected"}
    /\ cfg.bucket # "" /\ ~(cfg.deb /\ debThrows(cfg))
    /\ tasks' = promoteTasks(cfg, metadata)
    /\ pc' = "await"
    /\ UNCHANGED <<cfg, ret, prev, chk, runError, rejectedBy, writes>>

\* Promote.run from the bucket check to the construction of the Promise.all array.
PromoteRun(metadata) ==
    /\ cfg.cmd = "promote"
    /\ pc = "start"
    /\ IF cfg.bucket = ""
       THEN /\ pc' = "rejected"
            /\ runError' = "Cannot determine S3 bucket for promotion"
            /\ tasks' = tasks
       ELSE /\ tasks' = promoteTasks(cfg, metadata)
            /\ IF cfg.deb /\ debThrows(cfg)
               THEN pc' = "rejected" /\ runError' = "invalid arch"
               ELSE pc' = "await" /\ runError' = runError
    /\ UNCHANGED <<cfg, ret, prev, chk, rejectedBy, writes>>

\* One turn of the "fail early if targets are not built" loop of UploadTarballs.run.
UploadCheck ==
    /\ cfg.cmd = "upload"
    /\ pc = "start"
    /\ chk <= Len(cfg.targets)
    /\ IF localTarball(cfg, cfg.targets[chk]) \in cfg.fs
       THEN chk' = chk + 1 /\ pc' = pc /\ runError' = runError
       ELSE /\ pc' = "rejected"
            /\ runError' = "Cannot find a tarball " \o localTarball(cfg, cfg.targets[chk])
            /\ chk' = chk
    /\ UNCHANGED <<cfg, ret, prev, tasks, rejectedBy, writes>>

\* (mutant) the uploads are issued once the first target has been checked
UploadIssueAfterFirst ==
    /\ cfg.cmd = "upload"
    /\ pc = "start"
    /\ chk > 1 \/ cfg.targets = <<>>
    /\ tasks' = uploadTasks(cfg)
    /\ pc' = "await"
    /\ UNCHANGED <<cfg, ret, prev, chk, runError, rejectedBy, writes>>

\* UploadTarballs.run after the loop: every target's uploads are issued.
UploadIssue ==
    /\ cfg.cmd = "upload"
    /\ pc = "start"
    /\ chk > Len(cfg.targets)
    /\ tasks' = uploadTasks(cfg)
    /\ pc' = "await"
    /\ UNCHANGED <<cfg, ret, prev, chk, runError, rejectedBy, writes>>

(***************************************************************************)
(* The storage client and the index helper: a task settles.                *)
(***************************************************************************)
Fulfilled == {"copied", "skipped", "done", "uploaded"}
Terminal == Fulfilled \cup {"failed"}

\* (mutant) the rejection of a constituent promise is swallowed
rejectRunSwallowed(i) == UNCHANGED <<pc, rejectedBy, runError>>

\* A constituent promise rejects: Promise.all rejects with the first such reason.
rejectRun(i) ==
    IF pc = "await"
    THEN pc' = "rejected" /\ rejectedBy' = i /\ runError' = "task failed"
    ELSE UNCHANGED <<pc, rejectedBy, runError>>

settle(i, st, why) == tasks' = [tasks EXCEPT ![i].st = st, ![i].why = why]

\* copyObject looks the source object up.
CopyCheckSource(i) ==
    /\ tasks[i].op = "copy"
    /\ tasks[i].st = "pending"
    /\ settle(i, "sourceChecked", "")
    /\ UNCHANGED <<cfg, ret, prev, pc, chk, runError, rejectedBy, writes>>

\* copyObject ends: the object is copied, or its source is missing, or the call fails.
CopySettle(i, outcome) ==
    /\ tasks[i].op = "copy"
    /\ tasks[i].st = "sourceChecked"
    /\ CASE outcome = "ok" ->
              /\ settle(i, "copied", "")
              /\ writes' = IF tasks[i].dryRun THEN writes ELSE writes \cup {tasks[i].dest}
              /\ UNCHANGED <<pc, rejectedBy, runError>>
         [] outcome = "missing" /\ tasks[i].ignoreMissing ->
              /\ settle(i, "skipped", "missing")
              /\ UNCHANGED <<writes, pc, rejectedBy, runError>>
         [] outcome = "missing" /\ ~tasks[i].ignoreMissing ->
              /\ settle(i, "failed", "missing")
              /\ rejectRun(i)
              /\ writes' = writes
         [] outcome = "error" ->
              /\ settle(i, "failed", "error")
              /\ rejectRun(i)
              /\ writes' = writes
    /\ UNCHANGED <<cfg, ret, prev, chk>>

\* appendToIndex ends: the entry is appended to the index file, or the call fails.
AppendSettle(i, outcome) ==
    /\ tasks[i].op = "append"
    /\ tasks[i].st = "pending"
    /\ IF outcome = "ok"
       THEN /\ settle(i, "done", "")
            /\ writes' = IF tasks[i].dryRun THEN writes ELSE writes \cup {tasks[i].dest}
            /\ UNCHANGED <<pc, rejectedBy, runError>>
       ELSE /\ outcome = "error"
            /\ settle(i, "failed", "error")
            /\ rejectRun(i)
            /\ writes' = writes
    /\ UNCHANGED <<cfg, ret, prev, chk>>

\* uploadFile ends: the local file is uploaded, or cannot be read, or the call fails.
UploadSettle(i, outcome) ==
    /\ tasks[i].op = "upload"
    /\ tasks[i].st = "pending"
    /\ IF outcome = "ok" /\ (tasks[i].dryRun \/ tasks[i].src \in cfg.fs)
       THEN /\ settle(i, "uploaded", "")
            /\ writes' = IF tasks[i].dryRun THEN writes ELSE writes \cup {tasks[i].dest}
            /\ UNCHANGED <<pc, rejectedBy, runError>>
       ELSE /\ outcome = "error"
            /\ settle(i, "failed", IF tasks[i].src \in cfg.fs THEN "error" ELSE "missing")
            /\ rejectRun(i)
            /\ writes' = writes
    /\ UNCHANGED <<cfg, ret, prev, chk>>

\* The continuation of `await Promise.all(...)`: every constituent promise fulfilled.
RunResolve ==
    /\ pc = "await"
    /\ \A i \in 1..Len(tasks) : tasks[i].st \in Fulfilled
    /\ pc' = "resolved"
    /\ UNCHANGED <<cfg, ret, prev, chk, tasks, runError, rejectedBy, writes>>

\* Task i settles, whatever the state of the run and of the other tasks.
SettleTask(i) ==
    \/ CopyCheckSource(i)
    \/ \E o \in {"ok", "missing", "error"} : CopySettle(i, o)
    \/ \E o \in {"ok", "error"} : AppendSettle(i, o)
    \/ \E o \in {"ok", "error"} : UploadSettle(i, o)

Settle == \E i \in 1..Len(tasks) : SettleTask(i)

Next ==
    \/ PromoteRun(RunDebMetadata)
    \/ UploadCheck
    \/ UploadIssue
    \/ Settle
    \/ RunResolve

Spec == Init /\ [][Next]_vars

(***************************************************************************)
(* The plan of a run: what Promote.run and UploadTarballs.run issue, over   *)
(* more targets, folders and key schemes, with the six repository files of  *)
(* the Debian promotion and without the storage client's steps.             *)
(***************************************************************************)
PlanTargets ==
    {Target("darwin", "x64"), Target("darwin", "arm64"), Target("linux", "x64"),
     Target("linux", "arm"), Target("win32", "x64")}

\* s3Config.folder, with and without the trailing separator commitAWSDir strips.
PlanFolders == {"", "dir/"}

PlanPromoteCfgs ==
    { [BaseCfg EXCEPT !.targets = ts, !.indexes = f[1], !.macos = f[2], !.win = f[3],
                      !.deb = f[4], !.xz = f[5], !.hasCustom = h, !.folder = d] :
        ts \in SeqsUpTo(PlanTargets, MaxTargets), f \in [1..5 -> BOOLEAN],
        h \in BOOLEAN, d \in PlanFolders }

\* Upload runs of built targets: every tarball is there, the manifests are or are not.
PlanUploadCfgs ==
    { LET c == [BaseCfg EXCEPT !.cmd = "upload", !.targets = ts, !.xz = x,
                               !.hasCustom = h, !.folder = d]
      IN  [c EXCEPT !.fs = UNION { { dist(versioned(uploadKeys(c), ".tar.gz", ts[i])),
                                     dist(versioned(uploadKeys(c), ".tar.xz", ts[i])) }
                                   \cup (IF m THEN {dist(manifest(uploadKeys(c), ts[i]))} ELSE {}) :
                                   i \in 1..Len(ts) }] :
        ts \in SeqsUpTo(PlanTargets, MaxTargets), x \in BOOLEAN, h \in BOOLEAN,
        d \in PlanFolders, m \in BOOLEAN }

InitPlan ==
    /\ cfg \in PlanPromoteCfgs \cup PlanUploadCfgs
    /\ pc = "start"
    /\ chk = 1
    /\ tasks = <<>>
    /\ runError = ""
    /\ rejectedBy = 0
    /\ writes = {}
    /\ ret = NoCall
    /\ prev = NoRun

PlanNext ==
    \/ PromoteRun(DebMetadata)
    \/ UploadCheck
    \/ UploadIssue

PlanSpec == InitPlan /\ [][PlanNext]_vars

(***************************************************************************)
(* The functions upload-util exports, each called on its own: the          *)
(* arguments come from cfg (bin, version, sha, folder, channel, templates  *)
(* and the one target), the call and what it returned are kept in ret.     *)
(***************************************************************************)
UtilBins == {"mycli", "my-cli"}

UtilVersions == {"1.2.3", "2.0.0-beta.1"}

UtilShas == {"abc1234", "0f9"}

UtilFolders == {"", "dir", "dir/", "a/b", "a/b/"}

UtilChannels == {"stable", "beta"}

UtilTargets == {Target("linux", "x64"), Target("darwin", "arm64"), Target("win32", "x86")}

\* Interfaces.ArchTypes, and one value outside the four debArch knows.
UtilArchs == {"x64", "x86", "arm", "arm64", "ppc64"}

UtilExts == {".tar.gz", ".tar.xz"}

UtilCfgs ==
    { [BaseCfg EXCEPT !.cmd = "util", !.targets = <<t>>, !.bin = b, !.flagVersion = v,
                      !.pjsonVersion = v, !.flagSha = g, !.gitSha = g, !.folder = d,
                      !.channel = ch, !.hasCustom = h] :
        t \in UtilTargets, b \in UtilBins, v \in UtilVersions, g \in UtilShas,
        d \in UtilFolders, ch \in UtilChannels, h \in BOOLEAN }

InitUtil ==
    /\ cfg \in UtilCfgs
    /\ pc = "start"
    /\ chk = 1
    /\ tasks = <<>>
    /\ runError = ""
    /\ rejectedBy = 0
    /\ writes = {}
    /\ ret = NoCall
    /\ prev = NoRun

\* The call returns (or throws): nothing else of the state changes.
returns(fn, type, ext, arg, value, threw) ==
    /\ cfg.cmd = "util"
    /\ pc = "start"
    /\ pc' = "returned"
    /\ ret' = [fn |-> fn, type |-> type, ext |-> ext, arg |-> arg, value |-> value,
               threw |-> threw]
    /\ UNCHANGED <<cfg, prev, chk, tasks, runError, rejectedBy, writes>>

CallCommitAWSDir ==
    returns("commitAWSDir", "", "", cfg.folder,
            commitAWSDir(cfg.flagVersion, cfg.flagSha, cfg.folder), FALSE)

CallChannelAWSDir ==
    returns("channelAWSDir", "", "", cfg.folder, channelAWSDir(cfg.channel, cfg.folder), FALSE)

\* templateShortKey(type, {bin, version, sha, platform, arch, ext, versionShaRevision})
utilOpts(ext) ==
    [optsOf(promoteKeys(cfg), cfg.targets[1], ext) EXCEPT
        !.versionShaRevision = debVersion(cfg.pjsonVersion, cfg.gitSha)]

CallTemplateShortKey(type, ext) ==
    returns("templateShortKey", type, ext, "", templateShortKey(type, utilOpts(ext)), FALSE)

\* One operation of the object s3Keys(config, s3Config, {bin, sha, version}) returns.
keysOp(op, ext, localKey) ==
    LET k == promoteKeys(cfg)
        t == cfg.targets[1]
    IN  CASE op = "versioned"       -> versioned(k, ext, t)
          [] op = "manifest"        -> manifest(k, t)
          [] op = "channelTarball"  -> channelTarball(k, ext, t, cfg.channel)
          [] op = "channelManifest" -> channelManifest(k, t, cfg.channel)
          [] op = "indexFilename"   -> indexFilename(k, ext, t, cfg.channel)
          [] op = "cloudKey"        -> cloudKey(k, localKey)

CallKeys(op, ext) ==
    returns("s3Keys", op, ext, "", keysOp(op, ext, ""), FALSE)

CallCloudKey(localKey) ==
    returns("s3Keys", "cloudKey", "", localKey, keysOp("cloudKey", "", localKey), FALSE)

CallDebArch(arch) ==
    returns("debArch", "", "", arch, IF debArchThrows(arch) THEN "" ELSE debArch(arch),
            debArchThrows(arch))

CallDebVersion ==
    returns("debVersion", "", "", cfg.pjsonVersion, debVersion(cfg.pjsonVersion, cfg.gitSha),
            FALSE)

TemplateTypes == {"deb", "macos", "win32", "manifest", "unversioned", "versioned"}

\* The local keys cloudKey is handed: a versioned tarball, a manifest, any path.
localKeys ==
    { versioned(promoteKeys(cfg), e, cfg.targets[1]) : e \in UtilExts }
        \cup {manifest(promoteKeys(cfg), cfg.targets[1]), "any/path/file.tar.gz"}

UtilNext ==
    \/ CallCommitAWSDir
    \/ CallChannelAWSDir
    \/ \E type \in TemplateTypes, e \in UtilExts : CallTemplateShortKey(type, e)
    \/ \E op \in {"versioned", "channelTarball", "indexFilename"}, e \in UtilExts :
            CallKeys(op, e)
    \/ \E op \in {"manifest", "channelManifest"} : CallKeys(op, "")
    \/ \E localKey \in localKeys : CallCloudKey(localKey)
    \/ \E arch \in UtilArchs : CallDebArch(arch)
    \/ CallDebVersion

UtilSpec == InitUtil /\ [][UtilNext]_vars

(***************************************************************************)
(* Promotions run from a checkout: buildConfig (config.version, gitSha) is *)
(* read from the local project, the release to promote from the flags.     *)
(***************************************************************************)
DebTargets ==
    {Target("linux", "x64"), Target("linux", "arm"), Target("linux", "x86"),
     Target("darwin", "x64")}

\* config.version and buildConfig.gitSha of the checkout: the promoted release
\* itself, a later commit, a prerelease of it.
LocalProjects ==
    {[version |-> "1.2.3", sha |-> "abc1234"], [version |-> "1.3.0", sha |-> "def5678"],
     [version |-> "1.2.3-beta.1", sha |-> "abc1234"]}

DebPromoteCfgs ==
    { [BaseCfg EXCEPT !.targets = ts, !.deb = d, !.pjsonVersion = l.version,
                      !.gitSha = l.sha, !.folder = f] :
        ts \in SeqsUpTo(DebTargets, MaxTargets), d \in BOOLEAN, l \in LocalProjects,
        f \in PlanFolders }

InitDeb ==
    /\ cfg \in DebPromoteCfgs
    /\ pc = "start"
    /\ chk = 1
    /\ tasks = <<>>
    /\ runError = ""
    /\ rejectedBy = 0
    /\ writes = {}
    /\ ret = NoCall
    /\ prev = NoRun

DebSpec == InitDeb /\ [][PromoteRun(DebMetadata)]_vars

(***************************************************************************)
(* The same command run a second time, with the same flags, the same       *)
(* checkout and the same local files, once its first run has resolved.     *)
(***************************************************************************)
RunAgain ==
    /\ pc = "resolved"
    /\ ~prev.ran
    /\ prev' = [ran |-> TRUE, tasks |-> tasks]
    /\ pc' = "start"
    /\ chk' = 1
    /\ tasks' = <<>>
    /\ UNCHANGED <<cfg, ret, runError, rejectedBy, writes>>

RerunNext ==
    \/ Next
    \/ RunAgain

\* The runs run twice: those that issue at most MaxRerunTasks storage tasks.
InitRerun ==
    /\ cfg \in { c \in PromoteCfgs \cup UploadCfgs : fanOut(c, RunDebMetadata) <= MaxRerunTasks }
    /\ pc = "start"
    /\ chk = 1
    /\ tasks = <<>>
    /\ runError = ""
    /\ rejectedBy = 0
    /\ writes = {}
    /\ ret = NoCall
    /\ prev = NoRun

RerunSpec == InitRerun /\ [][RerunNext]_vars

(***************************************************************************)
(* C1.  In upload, when the local versioned .tar.gz of some target does    *)
(* not exist, no uploadFile call is ever issued: uploads are issued only   *)
(* after the existence loop has passed every target, and a run with a      *)
(* missing tarball ends rejected on that tarball with no task issued.      *)
(***************************************************************************)
missingTarballs(c) ==
    { i \in 1..Len(c.targets) : localTarball(c, c.targets[i]) \notin c.fs }

C1_NoUploadBeforeCheck ==
    cfg.cmd = "upload" =>
        /\ tasks # <<>> => (chk > Len(cfg.targets) /\ missingTarballs(cfg) = {})
        /\ missingTarballs(cfg) # {} =>
              /\ tasks = <<>> /\ writes = {}
              /\ pc \in {"start", "rejected"}
              /\ pc = "rejected" =>
                    /\ chk \in missingTarballs(cfg)
                    /\ \A j \in missingTarballs(cfg) : chk <= j

\* The second of two targets is not built: the loop passed the first and failed.
C1_Witness ==
    /\ cfg.cmd = "upload" /\ Len(cfg.targets) = 2
    /\ missingTarballs(cfg) = {2}
    /\ pc = "rejected" /\ chk = 2 /\ tasks = <<>>
(***************************************************************************)
(* C2.  In a promote run with ignore-missing, a copy whose source object   *)
(* is missing ends skipped and does not reject the run; every task of the  *)
(* run has been issued and every task that has not settled can still       *)
(* settle; a rejected run was rejected by a local error or by a task that  *)
(* failed for another reason than a missing source.                        *)
(***************************************************************************)
C2_IgnoreMissingSkips ==
    (cfg.cmd = "promote" /\ cfg.ignoreMissing) =>
        /\ \A i \in 1..Len(tasks) :
              /\ tasks[i].why = "missing" => (tasks[i].st = "skipped" /\ rejectedBy # i)
              /\ tasks[i].st \notin Terminal => ENABLED SettleTask(i)
        /\ tasks # <<>> => Len(tasks) = fanOut(cfg, RunDebMetadata)
        /\ (pc = "rejected" /\ rejectedBy # 0) => tasks[rejectedBy].why = "error"
        /\ (pc = "rejected" /\ rejectedBy = 0) => (cfg.bucket = "" \/ (cfg.deb /\ debThrows(cfg)))

\* A run resolved although one copy was skipped for its missing source, beside a copied one.
C2_Witness ==
    /\ cfg.cmd = "promote" /\ cfg.ignoreMissing /\ pc = "resolved"
    /\ \E i, j \in 1..Len(tasks) :
          /\ tasks[i].st = "skipped" /\ tasks[i].why = "missing"
          /\ tasks[j].st = "copied"

(***************************************************************************)
(* C3.  In a promote run, a failed task (a missing source without          *)
(* ignore-missing, or another error) rejects the run, and no task is       *)
(* cancelled by it: whatever has not settled can still settle, also after  *)
(* the run was rejected; a run never resolves with a failed task.          *)
(***************************************************************************)
C3_FailureIsolated ==
    cfg.cmd = "promote" =>
        /\ \A i \in 1..Len(tasks) :
              /\ tasks[i].st = "failed" => pc = "rejected"
              /\ tasks[i].st \in Terminal \cup {"pending", "sourceChecked"}
              /\ tasks[i].st \in {"pending", "sourceChecked"} => ENABLED SettleTask(i)
        /\ (pc = "rejected" /\ rejectedBy # 0) => tasks[rejectedBy].st = "failed"

\* A copy failed on its missing source and rejected the run while a sibling is in flight.
C3_Witness ==
    /\ cfg.cmd = "promote" /\ ~cfg.ignoreMissing /\ pc = "rejected"
    /\ \E i, j, k \in 1..Len(tasks) :
          /\ rejectedBy = i /\ tasks[i].st = "failed" /\ tasks[i].why = "missing"
          /\ tasks[j].st = "sourceChecked"
          /\ tasks[k].st = "copied"

(***************************************************************************)
(* C4.  (as claimed) When two or more storage operations of a run fail,    *)
(* the outcome of the run names every one of them (stated for promote).    *)
(***************************************************************************)
failedTasks == { i \in 1..Len(tasks) : tasks[i].st = "failed" }

C4_EveryFailureNamed ==
    (cfg.cmd = "promote" /\ Cardinality(failedTasks) >= 2 /\ runError = "task failed") =>
        \A i \in failedTasks : rejectedBy = i

(***************************************************************************)
(* C5.  In dry-run mode, upload and promote mutate nothing in storage,     *)
(* every task carries the dry-run flag, the tasks issued (operation, kind, *)
(* keys, namespace, bucket) are those of the real run of the same inputs,  *)
(* and the existence loop of upload accepts and rejects as the real run's. *)
(***************************************************************************)
opOf(t) ==
    [op |-> t.op, kind |-> t.kind, src |-> t.src, dest |-> t.dest,
     namespace |-> t.namespace, bucket |-> t.bucket, ignoreMissing |-> t.ignoreMissing]

opsOf(ts) == [i \in 1..Len(ts) |-> opOf(ts[i])]

realRun(c) == [c EXCEPT !.dryRun = FALSE]

plannedTasks(c, metadata) ==
    IF c.cmd = "promote" THEN promoteTasks(c, metadata) ELSE uploadTasks(c)

C5_DryRunMutatesNothing ==
    cfg.dryRun =>
        /\ writes = {}
        /\ \A i \in 1..Len(tasks) : tasks[i].dryRun
        /\ (tasks # <<>> /\ \A i \in 1..Len(tasks) : tasks[i].st = "pending") =>
              opsOf(tasks) = opsOf(plannedTasks(realRun(cfg), RunDebMetadata))
        /\ cfg.cmd = "upload" =>
              /\ (pc = "rejected" /\ rejectedBy = 0) => missingTarballs(cfg) # {}
              /\ pc \in {"await", "resolved"} => missingTarballs(cfg) = {}

\* A dry promote run with --indexes resolved: a copy and an index append were made.
C5_Witness ==
    /\ cfg.cmd = "promote" /\ cfg.dryRun /\ cfg.indexes /\ pc = "resolved"
    /\ \E i, j \in 1..Len(tasks) :
          /\ tasks[i].op = "copy" /\ tasks[i].st = "copied"
          /\ tasks[j].op = "append" /\ tasks[j].st = "done"

(***************************************************************************)
(* C6.  (as claimed) A promote run with --deb and a linux target whose     *)
(* architecture debArch does not know issues no storage operation.         *)
(***************************************************************************)
C6_InvalidArchBeforeNetwork ==
    (cfg.cmd = "promote" /\ cfg.deb /\ debThrows(cfg)) => tasks = <<>>

(***************************************************************************)
(* C7.  (as claimed) In upload and in promote, a run whose storage         *)
(* configuration has no bucket issues no storage operation.                *)
(***************************************************************************)
C7_NoBucketNoOperation == cfg.bucket = "" => tasks = <<>>

(***************************************************************************)
(* C8.  Every copy of a promote run moves pending -> sourceChecked -> one  *)
(* of copied, skipped (source missing, ignore-missing), failed (source     *)
(* missing, no ignore-missing), failed (other error), stays in its         *)
(* terminal state, and once the tasks are issued none is issued again:     *)
(* the list of tasks keeps its length and every task its arguments.        *)
(***************************************************************************)
copyStep(t, u) ==
    \/ u.st = t.st /\ u.why = t.why
    \/ t.st = "pending" /\ u.st = "sourceChecked" /\ u.why = ""
    \/ /\ t.st = "sourceChecked"
       /\ \/ u.st = "copied" /\ u.why = ""
          \/ u.st = "skipped" /\ u.why = "missing" /\ t.ignoreMissing
          \/ u.st = "failed" /\ u.why = "missing" /\ ~t.ignoreMissing
          \/ u.st = "failed" /\ u.why = "error"

C8_CopyLifecycle ==
    [][ /\ tasks # <<>> => Len(tasks') = Len(tasks)
        /\ \A i \in 1..Len(tasks) :
              (tasks[i].op = "copy" /\ i <= Len(tasks')) =>
                  /\ opOf(tasks'[i]) = opOf(tasks[i])
                  /\ copyStep(tasks[i], tasks'[i]) ]_vars

\* The three copies of one run ended copied, skipped and failed.
C8_Witness ==
    /\ cfg.cmd = "promote"
    /\ \E i, j, k \in 1..Len(tasks) :
          /\ tasks[i].op = "copy" /\ tasks[i].st = "copied"
          /\ tasks[j].op = "copy" /\ tasks[j].st = "skipped"
          /\ tasks[k].op = "copy" /\ tasks[k].st = "failed" /\ tasks[k].why = "error"

(***************************************************************************)
(* C9.  Within one run no two storage tasks write the same destination     *)
(* key: the destination keys of the copies and uploads a run issues, over  *)
(* all targets and all enabled artifact kinds, are pairwise distinct.      *)
(***************************************************************************)
writers == { i \in 1..Len(tasks) : tasks[i].op \in {"copy", "upload"} }

C9_DestinationKeysDistinct ==
    \A i, j \in writers : i # j => tasks[i].dest # tasks[j].dest

(***************************************************************************)
(* C10.  With custom key templates configured, every key of a run comes    *)
(* from the templating hook: the destination key of every copy promote     *)
(* issues is a key the hook renders, and its source is the bucket joined   *)
(* with a key the hook renders; the pkg, exe and Debian copies included.   *)
(***************************************************************************)
hookTypes == {"versioned", "unversioned", "manifest", "macos", "win32", "deb"}

hookExts == {"", ".tar.gz", ".tar.xz", ".pkg", ".exe", ".deb"}

\* Every key config.s3Key renders for the targets, architectures and channel of c.
hookKeys(c) ==
    { s3KeyHook(ty, e, t, ch) :
        ty \in hookTypes, e \in hookExts,
        t \in Range(c.targets) \cup { Target("", u.arch) : u \in Range(c.targets) },
        ch \in {"", c.channel} }

C10_AllKeysFromHook ==
    (cfg.cmd = "promote" /\ cfg.hasCustom) =>
        LET ks == hookKeys(cfg)
        IN  \A i \in 1..Len(tasks) :
                tasks[i].op = "copy" =>
                    /\ tasks[i].dest \in ks
                    /\ \E k \in ks : tasks[i].src = posixJoin(<<cfg.bucket, k>>)

(***************************************************************************)
(* C11.  With custom templates configured, every operation of the key      *)
(* builder returns what the hook renders for the operation's own           *)
(* parameters (its template type, the extension, the target and, for the   *)
(* channel operations, the channel), unchanged; cloudKey hands the key it  *)
(* is given through unchanged; no commit or channel directory and no       *)
(* built-in name is part of the result.                                    *)
(***************************************************************************)
\* What the hook renders: custom/<type>/<platform>-<arch><ext>[/<channel>].
rendered(type, ext, channel) ==
    "custom/" \o type \o "/" \o cfg.targets[1].platform \o "-" \o cfg.targets[1].arch \o ext
        \o (IF channel = "" THEN "" ELSE "/" \o channel)

C11_CustomDelegates ==
    (cfg.hasCustom /\ ret.fn = "s3Keys") =>
        /\ ret.type = "versioned" => ret.value = rendered("versioned", ret.ext, "")
        /\ ret.type = "manifest" => ret.value = rendered("manifest", "", "")
        /\ ret.type = "channelTarball" => ret.value = rendered("unversioned", ret.ext, cfg.channel)
        /\ ret.type = "channelManifest" => ret.value = rendered("manifest", "", cfg.channel)
        /\ ret.type = "indexFilename" => ret.value = rendered("unversioned", ret.ext, cfg.channel)
        /\ ret.type = "cloudKey" => ret.value = ret.arg
        /\ ~includes(ret.value, "versions/") /\ ~includes(ret.value, "channels/")
        /\ ~includes(ret.value, cfg.bin)

C11_Witness ==
    /\ cfg.hasCustom /\ ret.fn = "s3Keys" /\ ret.type = "channelManifest"
    /\ ret.value = "custom/manifest/linux-x64/stable"

(***************************************************************************)
(* C12.  The unversioned tarball name is the versioned name with the one   *)
(* substring "-v<version>-<sha>" removed by a single replace; so is the    *)
(* name of the channel manifest with respect to the versioned manifest     *)
(* name, and so are the channel names <bin>-<arch>.pkg and <bin>-<arch>.exe *)
(* with respect to the versioned installer names.                          *)
(***************************************************************************)
versionSha == "-v" \o cfg.flagVersion \o "-" \o cfg.flagSha

C12_UnversionedIsVersionedStripped ==
    /\ (ret.fn = "templateShortKey" /\ ret.type = "unversioned") =>
            ret.value = replace(templateShortKey("versioned", utilOpts(ret.ext)), versionSha, "")
    /\ (ret.fn = "templateShortKey" /\ ret.type = "versioned") =>
            /\ replace(ret.value, versionSha, "")
                 = cfg.bin \o "-" \o cfg.targets[1].platform \o "-" \o cfg.targets[1].arch \o ret.ext
            /\ Len(ret.value) = Len(templateShortKey("unversioned", utilOpts(ret.ext)))
                                  + Len(versionSha)
    /\ (ret.fn = "s3Keys" /\ ret.type = "channelManifest" /\ ~cfg.hasCustom) =>
            basename(ret.value)
              = replace(templateShortKey("manifest", utilOpts("")), versionSha, "")
    /\ (ret.fn = "templateShortKey" /\ ret.type = "manifest") =>
            replace(ret.value, versionSha, "")
              = cfg.bin \o "-" \o cfg.targets[1].platform \o "-" \o cfg.targets[1].arch
                  \o "-buildmanifest"
    /\ (ret.fn = "templateShortKey" /\ ret.type = "macos") =>
            replace(ret.value, versionSha, "") = cfg.bin \o "-" \o cfg.targets[1].arch \o ".pkg"
    /\ (ret.fn = "templateShortKey" /\ ret.type = "win32") =>
            replace(ret.value, versionSha, "") = cfg.bin \o "-" \o cfg.targets[1].arch \o ".exe"

C12_Witness ==
    /\ ret.fn = "templateShortKey" /\ ret.type = "unversioned"
    /\ cfg.flagVersion = "2.0.0-beta.1"
    /\ ret.value = "my-cli-linux-x64.tar.xz"

(***************************************************************************)
(* C13.  channelTarball(ext, target, channel) begins with the channel      *)
(* directory and its basename is indexFilename(ext, target, channel), with *)
(* or without custom templates.                                            *)
(***************************************************************************)
startsWith(s, prefix) == Len(prefix) <= Len(s) /\ SubSeq(s, 1, Len(prefix)) = prefix

C13_ChannelTarballMatchesIndex ==
    (ret.fn = "s3Keys" /\ ret.type = "channelTarball") =>
        /\ startsWith(ret.value, channelAWSDir(cfg.channel, cfg.folder))
        /\ basename(ret.value) = keysOp("indexFilename", ret.ext, "")

(***************************************************************************)
(* C13, amended.  Without custom templates channelTarball is the channel   *)
(* directory, "/", and indexFilename, so that its basename is the index    *)
(* filename; with custom templates indexFilename is the same call of the   *)
(* hook as channelTarball and returns the whole channel key.               *)
(***************************************************************************)
C13_IndexNameOfChannelTarball ==
    (ret.fn = "s3Keys" /\ ret.type = "channelTarball") =>
        IF cfg.hasCustom
        THEN keysOp("indexFilename", ret.ext, "") = ret.value
        ELSE /\ ret.value = channelAWSDir(cfg.channel, cfg.folder) \o "/"
                              \o keysOp("indexFilename", ret.ext, "")
             /\ basename(ret.value) = keysOp("indexFilename", ret.ext, "")
             /\ ~includes(keysOp("indexFilename", ret.ext, ""), "/")

C13_Witness ==
    /\ ret.fn = "s3Keys" /\ ret.type = "channelTarball" /\ ~cfg.hasCustom
    /\ ret.value = "dir/channels/beta/mycli-linux-x64.tar.gz"

(***************************************************************************)
(* C14.  The Debian package promote copies is the one of the release       *)
(* supplied with --version and --sha: its source key is in the commit      *)
(* directory of that version and sha, and its name is                      *)
(* <bin>_<version>.<sha>-1_<debarch>.deb with that same version and sha.   *)
(***************************************************************************)
endsWith(s, suffix) ==
    Len(suffix) <= Len(s) /\ SubSeq(s, Len(s) - Len(suffix) + 1, Len(s)) = suffix

\* The source keys of the supplied release's packages, one per promoted architecture.
releaseDebs(c) ==
    { c.bucket \o "/" \o commitAWSDir(c.flagVersion, c.flagSha, c.folder) \o "/apt/"
        \o c.bin \o "_" \o c.flagVersion \o "." \o c.flagSha \o "-1_" \o debArch(a) \o ".deb" :
      a \in Range(debArches(c)) }

C14_DebOfSuppliedRelease ==
    \A i \in 1..Len(tasks) :
        (tasks[i].kind \in {"deb", "deb-compat"} /\ endsWith(tasks[i].src, ".deb")) =>
            tasks[i].src \in releaseDebs(cfg)

(***************************************************************************)
(* C15.  In Debian promotion every artifact is copied from its one source  *)
(* in the commit's apt/ directory to both the canonical channel key        *)
(* apt/<artifact> and the compatibility key apt/./<artifact>, as two copy  *)
(* tasks; each of the two can take its next step and reach any of its      *)
(* outcomes whatever the state or outcome of the other.                    *)
(***************************************************************************)
aptTasks == { i \in 1..Len(tasks) : tasks[i].kind \in {"deb", "deb-compat"} }

C15_DebCopiesIndependent ==
    (cfg.cmd = "promote" /\ cfg.deb /\ tasks # <<>> /\ ~debThrows(cfg)) =>
        LET arts == debArtifacts(cfg, RunDebMetadata)
            from == cfg.bucket \o "/" \o commitAWSDir(cfg.flagVersion, cfg.flagSha, cfg.folder)
                      \o "/apt/"
            to   == channelAWSDir(cfg.channel, cfg.folder) \o "/apt/"
        IN  /\ Cardinality(aptTasks) = 2 * Len(arts)
            /\ \A n \in 1..Len(arts) :
                  \E i, j \in aptTasks :
                      /\ tasks[i].kind = "deb" /\ tasks[j].kind = "deb-compat"
                      /\ tasks[i].src = from \o arts[n] /\ tasks[j].src = from \o arts[n]
                      /\ tasks[i].dest = to \o arts[n]
                      /\ tasks[j].dest = to \o "./" \o arts[n]
            /\ \A i \in aptTasks :
                  /\ tasks[i].st = "pending" => ENABLED CopyCheckSource(i)
                  /\ tasks[i].st = "sourceChecked" =>
                        \A o \in {"ok", "missing", "error"} : ENABLED CopySettle(i, o)

\* The canonical copy failed and the compatibility copy of the same artifact was made.
C15_Witness ==
    /\ cfg.cmd = "promote" /\ cfg.deb
    /\ \E i, j \in aptTasks :
          /\ tasks[i].kind = "deb" /\ tasks[j].kind = "deb-compat"
          /\ tasks[i].src = tasks[j].src
          /\ tasks[i].st = "failed" /\ tasks[j].st = "copied"

(***************************************************************************)
(* C16.  The copy and upload orchestration is idempotent: the same command *)
(* run a second time, with the same inputs and with every source there or  *)
(* missing as in the first run, issues the same operations, and no         *)
(* destination key of a copy or upload gets another content than the one   *)
(* the first run gave it (the content of the one source copied to it).     *)
(***************************************************************************)
\* The sources whose content the copies and uploads among ts have written to key.
written(ts, key) ==
    { ts[i].src : i \in { j \in 1..Len(ts) : /\ ts[j].dest = key
                                              /\ ts[j].op \in {"copy", "upload"}
                                              /\ ts[j].st \in {"copied", "uploaded"}
                                              /\ ~ts[j].dryRun } }

\* No source appeared or disappeared between the two runs.
sameSources ==
    \A i \in 1..Len(tasks) :
        (tasks[i].op = "copy" /\ tasks[i].st \in Terminal /\ i <= Len(prev.tasks)) =>
            ((tasks[i].why = "missing") <=> (prev.tasks[i].why = "missing"))

C17_DebArchTotalInjective ==
    ret.fn = "debArch" =>
        /\ ret.arg = "x64" => (~ret.threw /\ ret.value = "amd64")
        /\ ret.arg = "x86" => (~ret.threw /\ ret.value = "i386")
        /\ ret.arg = "arm" => (~ret.threw /\ ret.value = "armel")
        /\ ret.arg = "arm64" => (~ret.threw /\ ret.value = "arm64")
        /\ ret.arg \notin {"x64", "x86", "arm", "arm64"} => ret.threw
        /\ ~ret.threw =>
              \A b \in UtilArchs \ {ret.arg} : ~debArchThrows(b) => debArch(b) # ret.value

C17_Witness == ret.fn = "debArch" /\ ret.arg = "arm" /\ ~ret.threw /\ ret.value = "armel"

(***************************************************************************)
(* C18.  Folder normalization: for a folder x, the commit directory and    *)
(* the channel directory are the same for "x" and for "x/", with exactly   *)
(* one separator between the folder and versions/ or channels/; with an    *)
(* empty folder the directory has no leading separator.                    *)
(***************************************************************************)
\* The folder without its trailing separator.
bare(folder) ==
    IF folder # "" /\ lastChar(folder) = "/" THEN SubSeq(folder, 1, Len(folder) - 1) ELSE folder

C18_FolderNormalized ==
    /\ ret.fn = "commitAWSDir" =>
          LET rest == "versions/" \o cfg.flagVersion \o "/" \o cfg.flagSha
          IN  IF cfg.folder = "" THEN ret.value = rest
              ELSE /\ ret.value = bare(cfg.folder) \o "/" \o rest
                   /\ ret.value = commitAWSDir(cfg.flagVersion, cfg.flagSha, cfg.folder \o "/")
                   /\ ret.value = commitAWSDir(cfg.flagVersion, cfg.flagSha, bare(cfg.folder))
    /\ ret.fn = "channelAWSDir" =>
          LET rest == "channels/" \o cfg.channel
          IN  IF cfg.folder = "" THEN ret.value = rest
              ELSE /\ ret.value = bare(cfg.folder) \o "/" \o rest
                   /\ ret.value = channelAWSDir(cfg.channel, cfg.folder \o "/")
                   /\ ret.value = channelAWSDir(cfg.channel, bare(cfg.folder))

C18_Witness ==
    /\ ret.fn = "commitAWSDir" /\ cfg.folder = "a/b/"
    /\ ret.value = "a/b/versions/1.2.3/abc1234"

(***************************************************************************)
(* C19.  A promote run whose preconditions hold issues, for every build    *)
(* target, exactly one manifest copy and exactly one .tar.gz copy whatever *)
(* the flags, one .tar.xz copy per target if and only if xz is set, and    *)
(* macOS, Windows and Debian copies if and only if the flag macos, win,    *)
(* deb is set; it issues no other copy.                                    *)
(***************************************************************************)
copiesOf(kind) == { i \in 1..Len(tasks) : tasks[i].op = "copy" /\ tasks[i].kind = kind }

\* One copy of the kind to the key, for every time the target is named.
onePerTarget(kind, key(_)) ==
    /\ Cardinality(copiesOf(kind)) = Len(cfg.targets)
    /\ \A t \in Range(cfg.targets) :
          Cardinality({ i \in copiesOf(kind) : tasks[i].dest = key(t) })
            = count(cfg.targets, LAMBDA u : u = t)

issued == cfg.cmd = "promote" /\ pc = "await"

tarballCopies ==
    /\ onePerTarget("manifest", LAMBDA t : channelManifest(promoteKeys(cfg), t, cfg.channel))
    /\ onePerTarget("gz", LAMBDA t : channelTarball(promoteKeys(cfg), ".tar.gz", t, cfg.channel))
    /\ IF cfg.xz
       THEN onePerTarget("xz", LAMBDA t : channelTarball(promoteKeys(cfg), ".tar.xz", t, cfg.channel))
       ELSE copiesOf("xz") = {}
    /\ \A i \in 1..Len(tasks) :
          tasks[i].op = "copy" =>
              tasks[i].kind \in {"manifest", "gz", "xz", "pkg", "exe", "deb", "deb-compat"}

C19_CopiesIffFlags ==
    (issued /\ cfg.targets # <<>>) =>
        /\ tarballCopies
        /\ cfg.macos <=> copiesOf("pkg") # {}
        /\ cfg.win <=> copiesOf("exe") # {}
        /\ cfg.deb <=> (copiesOf("deb") \cup copiesOf("deb-compat")) # {}

(***************************************************************************)
(* C19, amended.  As above for the manifest and the tarballs and for the   *)
(* Debian copies; macOS copies are issued if and only if macos is set and  *)
(* the target list has a darwin target, Windows copies if and only if win  *)
(* is set and the target list has a win32 target.                          *)
(***************************************************************************)
C19_CopiesPerFlagsAndTargets ==
    issued =>
        /\ tarballCopies
        /\ (cfg.macos /\ \E t \in Range(cfg.targets) : t.platform = "darwin")
              <=> copiesOf("pkg") # {}
        /\ (cfg.win /\ \E t \in Range(cfg.targets) : t.platform = "win32")
              <=> copiesOf("exe") # {}
        /\ cfg.deb <=> (copiesOf("deb") \cup copiesOf("deb-compat")) # {}

\* A run with xz and every installer flag set whose targets have no darwin target.
C19_Witness ==
    /\ issued /\ cfg.xz /\ cfg.macos /\ cfg.win /\ cfg.deb
    /\ Len(cfg.targets) = 2
    /\ copiesOf("pkg") = {} /\ copiesOf("exe") # {} /\ copiesOf("xz") # {}

(***************************************************************************)
(* C20.  Installer promotion issues exactly one copy per distinct          *)
(* architecture: with macos set one pkg copy for each distinct             *)
(* architecture among the darwin targets, with win set one exe copy for    *)
(* each distinct architecture among the win32 targets, also when the       *)
(* target list names a platform-architecture more than once.               *)
(***************************************************************************)
distinctArchs(platform) == { t.arch : t \in { u \in Range(cfg.targets) : u.platform = platform } }

C20_OneCopyPerDistinctArch ==
    issued =>
        /\ cfg.macos => Cardinality(copiesOf("pkg")) = Cardinality(distinctArchs("darwin"))
        /\ cfg.win => Cardinality(copiesOf("exe")) = Cardinality(distinctArchs("win32"))

(***************************************************************************)
(* C21.  In upload, a target whose local build manifest does not exist     *)
(* gets no manifest upload and the run is not failed for it: the tarball   *)
(* uploads of that target and every upload of the other targets are       *)
(* issued, and the run resolves when they succeed; a manifest that exists  *)
(* is uploaded once, for the target it belongs to, to cloudKey(manifest).  *)
(***************************************************************************)
uploadsOf(kind, target) ==
    { i \in 1..Len(tasks) :
        /\ tasks[i].op = "upload" /\ tasks[i].kind = kind
        /\ LET keys == uploadKeys(cfg)
               name == IF kind = "manifest" THEN manifest(keys, target)
                       ELSE versioned(keys, IF kind = "gz" THEN ".tar.gz" ELSE ".tar.xz", target)
           IN  tasks[i].src = dist(name) /\ tasks[i].dest = cloudKey(keys, name) }

hasManifest(target) == dist(manifest(uploadKeys(cfg), target)) \in cfg.fs

uploading == cfg.cmd = "upload" /\ pc # "start" /\ missingTarballs(cfg) = {}

C21_MissingManifestOnlyWarns ==
    uploading =>
        /\ \A t \in Range(cfg.targets) :
              LET n == count(cfg.targets, LAMBDA u : u = t)
              IN  /\ Cardinality(uploadsOf("manifest", t)) = IF hasManifest(t) THEN n ELSE 0
                  /\ Cardinality(uploadsOf("gz", t)) = n
                  /\ Cardinality(uploadsOf("xz", t)) = IF cfg.xz THEN n ELSE 0
        /\ pc = "rejected" => \E i \in 1..Len(tasks) : tasks[i].st = "failed"
        /\ (pc = "await" /\ \A i \in 1..Len(tasks) : tasks[i].st \in Fulfilled) => ENABLED RunResolve

\* A run resolved with one target's manifest uploaded and the other's missing.
C21_Witness ==
    /\ uploading /\ pc = "resolved"
    /\ \E t, u \in Range(cfg.targets) :
          /\ ~hasManifest(t) /\ uploadsOf("manifest", t) = {} /\ uploadsOf("gz", t) # {}
          /\ hasManifest(u) /\ \E i \in uploadsOf("manifest", u) : tasks[i].st = "uploaded"

(***************************************************************************)
(* C22.  With deb set the Debian artifacts promoted are exactly one        *)
(* architecture-mapped .deb for each linux target whose architecture is    *)
(* not x86 and the six repository files Packages.gz, Packages.xz,          *)
(* Packages.bz2, Release, InRelease, Release.gpg; the six files are copied *)
(* also when no target is a linux target; there are                        *)
(* 2 * (6 + number of non-x86 linux targets) apt copies.                   *)
(***************************************************************************)
repositoryFiles == {"Packages.gz", "Packages.xz", "Packages.bz2", "Release", "InRelease", "Release.gpg"}

\* The linux targets of the list that are not x86, as often as they are named.
packaged == SelectSeq(cfg.targets, LAMBDA t : t.platform = "linux" /\ t.arch # "x86")

\* The canonical copies of the artifacts whose name ends with the suffix.
aptCopiesOf(kind, suffix) == { i \in copiesOf(kind) : endsWith(tasks[i].dest, suffix) }

C22_DebArtifacts ==
    issued =>
        IF cfg.deb
        THEN /\ Cardinality(aptTasks) = 2 * (6 + Len(packaged))
             /\ Cardinality(copiesOf("deb")) = 6 + Len(packaged)
             /\ Cardinality(copiesOf("deb-compat")) = 6 + Len(packaged)
             /\ \A f \in repositoryFiles :
                   /\ Cardinality(aptCopiesOf("deb", "/apt/" \o f)) = 1
                   /\ Cardinality(aptCopiesOf("deb-compat", "/apt/./" \o f)) = 1
             /\ \A a \in {"x64", "arm"} :
                   LET n    == count(packaged, LAMBDA t : t.arch = a)
                       name == "_" \o (IF a = "x64" THEN "amd64" ELSE "armel") \o ".deb"
                   IN  /\ Cardinality(aptCopiesOf("deb", name)) = n
                       /\ Cardinality(aptCopiesOf("deb-compat", name)) = n
             /\ aptCopiesOf("deb", "_i386.deb") = {}
        ELSE aptTasks = {}

\* A promotion of an x64 and an x86 linux target: one package and the six files, twice.
C22_Witness ==
    /\ issued /\ cfg.deb
    /\ cfg.targets = <<Target("linux", "x86"), Target("linux", "x64")>>
    /\ Cardinality(aptTasks) = 14

(***************************************************************************)
(* C23.  With indexes set promote issues exactly one index append for      *)
(* each .tar.gz, .tar.xz, pkg and exe copy it issues, none for a manifest  *)
(* or Debian copy and none at all without indexes.  The append is issued   *)
(* with its copy and does not wait for it: whatever has become of the      *)
(* copy, the entry for the source URL can be appended.                     *)
(***************************************************************************)
indexedKinds == {"gz", "xz", "pkg", "exe"}

appends == { j \in 1..Len(tasks) : tasks[j].op = "append" }

\* The appends issued beside the copy i: same source URL, filename the copy's namespace.
appendsOf(i) ==
    { j \in appends : /\ tasks[j].kind = tasks[i].kind \o "-index"
                      /\ tasks[j].src = tasks[i].src
                      /\ tasks[j].dest = tasks[i].namespace }

\* The copies issued with the same arguments as the copy i.
sameCopies(i) ==
    { k \in copiesOf(tasks[i].kind) : /\ tasks[k].src = tasks[i].src
                                      /\ tasks[k].namespace = tasks[i].namespace }

C24_IndexFilenamesDistinct ==
    (issued /\ cfg.indexes) =>
        \A i, j \in appends : i # j => tasks[i].dest # tasks[j].dest

(***************************************************************************)
(* C25.  The upload precondition check depends only on the .tar.gz of      *)
(* each target: it passes if and only if every target's local versioned    *)
(* .tar.gz exists, with or without xz.  With xz and a local .tar.xz        *)
(* missing the check still passes, and the .tar.gz and manifest uploads of *)
(* all targets are issued alongside the .tar.xz upload of the missing file.*)
(***************************************************************************)
hasLocal(ext, target) == dist(versioned(uploadKeys(cfg), ext, target)) \in cfg.fs

\* The existence loop is over: it threw, or the uploads were issued.
checked == cfg.cmd = "upload" /\ pc # "start"

\* The loop threw: the run is rejected and no upload was issued.
checkFailed == pc = "rejected" /\ tasks = <<>> /\ runError # ""

C25_CheckLooksAtGzOnly ==
    checked =>
        /\ ~checkFailed <=> \A t \in Range(cfg.targets) : hasLocal(".tar.gz", t)
        /\ ~checkFailed =>
              \A t \in Range(cfg.targets) :
                 LET n == count(cfg.targets, LAMBDA u : u = t)
                 IN  /\ Cardinality(uploadsOf("gz", t)) = n
                     /\ Cardinality(uploadsOf("xz", t)) = IF cfg.xz THEN n ELSE 0
                     /\ Cardinality(uploadsOf("manifest", t)) = IF hasManifest(t) THEN n ELSE 0
        /\ checkFailed => startsWith(runError, "Cannot find a tarball ")

\* xz is enabled and a target's .tar.xz is missing: its three uploads were issued all the same.
C25_Witness ==
    /\ checked /\ cfg.xz /\ ~cfg.dryRun
    /\ \E t \in Range(cfg.targets) :
          /\ ~hasLocal(".tar.xz", t)
          /\ uploadsOf("gz", t) # {} /\ uploadsOf("manifest", t) # {}
          /\ \E i \in uploadsOf("xz", t) : tasks[i].st = "failed" /\ tasks[i].why = "missing"

====
